---- MODULE Spec2Model ----
(***************************************************************************)
(* A model of crates/sui-core/src/rest_index.rs: the two derived tables    *)
(* (transactions, owner) of IndexStoreTables, their bootstrap (init), the  *)
(* per-checkpoint update (index_checkpoint), pruning (prune) and the       *)
(* construction of RestIndexStore.  The primary object store, the          *)
(* checkpoint store and the checkpoint pipeline are the environment.       *)
(***************************************************************************)
EXTENDS Integers, Sequences, FiniteSets, TLC

\* ------------------------------------------------------------------ bounds

\* How many transactions the node executes in a run, in checkpoints of one
\* transaction or more.
MaxTxs == 3

\* How many times the pipeline hands the same checkpoint to index_checkpoint
\* (the first call and its crash-retries).
MaxApply == 2

\* ------------------------------------------------------------ data domains

\* SuiAddress values.
Addresses == {"A", "B"}

\* ObjectID values, listed in key order.
ObjectIds == <<"O1", "O2">>

Objects == {ObjectIds[i] : i \in 1..Len(ObjectIds)}

\* Option values: None, or Some(x).
None == <<>>

Some(x) == <<x>>

Unwrap(opt) == opt[1]

\* sui_types::object::Owner.  ObjectOwner wraps the parent's id as an address,
\* so ObjectOwner("A") has the same address bits as AddressOwner("A").
AddressOwner(a) == [kind |-> "AddressOwner", addr |-> a]

ObjectOwner(a) == [kind |-> "ObjectOwner", addr |-> a]

Shared == [kind |-> "Shared", addr |-> "-"]

Immutable == [kind |-> "Immutable", addr |-> "-"]

Owners == {AddressOwner(a) : a \in Addresses} \cup {ObjectOwner("A"), Shared, Immutable}

\* The Move type of an object: fixed for the lifetime of an id.
TypeOf(id) == IF id = "O1" THEN "Coin" ELSE "Nft"

\* An Object as the index reads it: id(), version(), owner, type_().
MkObject(id, version, o) == [id |-> id, version |-> version, owner |-> o, type_ |-> TypeOf(id)]

\* ------------------------------------------------------------------- state

VARIABLES
  live,          \* primary store: ObjectID -> [st, version, owner]
  checkpoints,   \* checkpoint store: contents (digests) of checkpoint i-1 at i
  prunedCount,   \* checkpoint store: checkpoints 0..prunedCount-1 are pruned
  pending,       \* the CheckpointData the pipeline is handing to the index
  applied,       \* how many index_checkpoint calls have written `pending`
  transactions,  \* IndexStoreTables.transactions: digest -> TransactionInfo
  owner,         \* IndexStoreTables.owner: OwnerIndexKey -> OwnerIndexInfo
  pc,            \* where the index process is
  boot,          \* the last init call: "never" (none yet), "running", "done"
                 \* (Ok), "missing" (Err, a checkpoint could not be read),
                 \* "error_tx" (Err before the transactions batch was written),
                 \* "error_owner" (Err after it), "crashed" (the process
                 \* stopped after it)
  iter,          \* init: the live objects its iterator has yet to yield
  batch,         \* index_checkpoint: the staged DBBatch
  prunePc,       \* where the pruner's call of prune is
  pruneArg,      \* prune: checkpoint_contents_to_prune
  pruneBatch,    \* prune: the staged DBBatch
  pruneTo,       \* pruner: the watermark it sets once prune has returned Ok
  incremental,   \* a second IndexStoreTables, empty at genesis and given every
                 \* checkpoint by index_checkpoint as it is executed
  initKeys       \* history: the Owner Index keys when the last init call that
                 \* got past its backfill began

vars == <<live, checkpoints, prunedCount, pending, applied, transactions, owner,
          pc, boot, iter, batch, prunePc, pruneArg, pruneBatch, pruneTo, incremental,
          initKeys>>

envVars == <<live, checkpoints, prunedCount, incremental>>

pruneVars == <<prunePc, pruneArg, pruneBatch, pruneTo>>

\* ------------------------------------------------------------- table maps

EmptyMap == [k \in {} |-> 0]

Put(f, k, v) == [x \in (DOMAIN f) \cup {k} |-> IF x = k THEN v ELSE f[x]]

Del(f, k) == [x \in (DOMAIN f) \ {k} |-> f[x]]

OwnerIndexKey(a, id) == <<a, id>>

OwnerIndexInfo(object) == [version |-> object.version, type_ |-> object.type_]

TransactionInfo(seq) == [checkpoint |-> seq]

\* One staged operation of a DBBatch.
PutOp(table, k, v) == [table |-> table, op |-> "put", key |-> k, val |-> v]

DelOp(table, k) == [table |-> table, op |-> "del", key |-> k, val |-> 0]

\* insert_batch over an iterator of digests, all with the same info.
RECURSIVE InsertDigests(_, _)
InsertDigests(digests, info) ==
  IF digests = <<>> THEN <<>>
  ELSE <<PutOp("transactions", Head(digests), info)>> \o InsertDigests(Tail(digests), info)

\* Mutant: only the first digest of the iterator is deleted.
DeleteDigestsFirst(digests) ==
  IF digests = <<>> THEN <<>> ELSE <<DelOp("transactions", Head(digests))>>

\* delete_batch over an iterator of digests.
RECURSIVE DeleteDigests(_)
DeleteDigests(digests) ==
  IF digests = <<>> THEN <<>>
  ELSE <<DelOp("transactions", Head(digests))>> \o DeleteDigests(Tail(digests))

ApplyOp(tables, o) ==
  IF o.table = "transactions"
  THEN [tables EXCEPT !.transactions =
          IF o.op = "put" THEN Put(@, o.key, o.val) ELSE Del(@, o.key)]
  ELSE [tables EXCEPT !.owner =
          IF o.op = "put" THEN Put(@, o.key, o.val) ELSE Del(@, o.key)]

\* DBBatch::write: the staged operations take effect together, in the order
\* they were staged.
RECURSIVE BatchWrite(_, _)
BatchWrite(tables, b) ==
  IF b = <<>> THEN tables ELSE BatchWrite(ApplyOp(tables, Head(b)), Tail(b))

Tables == [transactions |-> transactions, owner |-> owner]

\* ------------------------------------------------- primary store (environment)

NoObject == [st |-> "none", version |-> 0, owner |-> Shared]

Wrapped == [st |-> "wrapped", version |-> 0, owner |-> Shared]

Deleted == [st |-> "deleted", version |-> 0, owner |-> Shared]

LiveObject(version, o) == [st |-> "live", version |-> version, owner |-> o]

\* What one transaction does to one object.
Skip == [k |-> "skip", owner |-> Shared]

SetOwner(o) == [k |-> "set", owner |-> o]

Delete == [k |-> "delete", owner |-> Shared]

Wrap == [k |-> "wrap", owner |-> Shared]

\* What a transaction may do to an object in state s: create it or unwrap it
\* under any owner, or unwrap and delete it; mutate or transfer a live one,
\* delete it or wrap it.  An immutable object never changes, a shared one
\* stays shared until deleted, and a deleted id is never used again.
ObjChoices(s) ==
  CASE s.st = "none" -> {SetOwner(o) : o \in Owners}
    [] s.st = "wrapped" -> {SetOwner(o) : o \in Owners} \cup {Delete}
    [] s.st = "deleted" -> {}
    [] OTHER ->
         IF s.owner = Immutable THEN {}
         ELSE IF s.owner = Shared THEN {SetOwner(Shared), Delete}
         ELSE {SetOwner(o) : o \in Owners} \cup {Delete, Wrap}

\* The transactions executable on the live-object set l: each touches one
\* object (what index_checkpoint stages for an object depends on no other).
TxChoices(l) ==
  {f \in [Objects -> {Skip, Delete, Wrap} \cup {SetOwner(o) : o \in Owners}] :
     /\ \A id \in Objects : f[id] = Skip \/ f[id] \in ObjChoices(l[id])
     /\ Cardinality({id \in Objects : f[id] # Skip}) = 1}

\* The live-object set after transaction f, whose outputs get version v.
ApplyTx(l, f, v) ==
  [id \in Objects |->
     CASE f[id].k = "skip" -> l[id]
       [] f[id].k = "set" -> LiveObject(v, f[id].owner)
       [] f[id].k = "delete" -> Deleted
       [] OTHER -> Wrapped]

\* CheckpointTransaction::removed_objects: the input state of every object the
\* transaction deleted or wrapped (an object unwrapped and deleted had none).
RECURSIVE RemovedObjects(_, _, _)
RemovedObjects(l, f, ids) ==
  IF ids = <<>> THEN <<>>
  ELSE (IF f[Head(ids)].k \in {"delete", "wrap"} /\ l[Head(ids)].st = "live"
        THEN <<MkObject(Head(ids), l[Head(ids)].version, l[Head(ids)].owner)>>
        ELSE <<>>) \o RemovedObjects(l, f, Tail(ids))

\* CheckpointTransaction::changed_objects: every output object, paired with
\* its input state when it had one (None for a created or unwrapped object).
RECURSIVE ChangedObjects(_, _, _, _)
ChangedObjects(l, f, v, ids) ==
  IF ids = <<>> THEN <<>>
  ELSE (IF f[Head(ids)].k = "set"
        THEN <<[object |-> MkObject(Head(ids), v, f[Head(ids)].owner),
                old_object |-> IF l[Head(ids)].st = "live"
                               THEN Some(MkObject(Head(ids), l[Head(ids)].version,
                                                  l[Head(ids)].owner))
                               ELSE None]>>
        ELSE <<>>) \o ChangedObjects(l, f, v, Tail(ids))

\* One executed transaction as CheckpointData carries it.  Its digest d also
\* serves as the version of its outputs (versions only grow).
MkTx(l, f, d) ==
  [digest |-> d,
   removed |-> RemovedObjects(l, f, ObjectIds),
   changed |-> ChangedObjects(l, f, d, ObjectIds)]

\* Every way to execute 1..n transactions in a row from l: the transactions
\* and the live-object set they leave.
RECURSIVE CpRuns(_, _, _)
CpRuns(l, d, n) ==
  IF n = 0 THEN {}
  ELSE UNION {
         LET t == MkTx(l, f, d)
             l1 == ApplyTx(l, f, d)
         IN  {[txs |-> <<t>>, live |-> l1]} \cup
             {[txs |-> <<t>> \o r.txs, live |-> r.live] : r \in CpRuns(l1, d + 1, n - 1)}
         : f \in TxChoices(l)}

RECURSIVE Digests(_)
Digests(txs) == IF txs = <<>> THEN <<>> ELSE <<Head(txs).digest>> \o Digests(Tail(txs))

NextDigest ==
  IF checkpoints = <<>> THEN 1
  ELSE LET c == checkpoints[Len(checkpoints)] IN c[Len(c)] + 1

\* sui_rest_api::CheckpointData of the checkpoint with sequence number seq.
CheckpointData(seq, txs) ==
  [checkpoint_summary |-> [sequence_number |-> seq],
   checkpoint_contents |-> Digests(txs),
   transactions |-> txs]

\* ------------------------------------------------------- index_checkpoint

\* Mutant: removed objects keep their keys.
RemovedObjectOpsKeep(removed_object) == <<>>

\* One removed object: delete its key when an address owned it.
RemovedObjectOps(removed_object) ==
  IF removed_object.owner.kind = "AddressOwner"
  THEN <<DelOp("owner", OwnerIndexKey(removed_object.owner.addr, removed_object.id))>>
  ELSE <<>>

\* Mutant: the old key of an object that changed owner is never deleted.
OldOwnerOpsNoDelete(object, old_object) == <<>>

\* Mutant: the old key is deleted only when the new owner is an address too.
OldOwnerOpsTransferOnly(object, old_object) ==
  IF old_object # None /\ Unwrap(old_object).owner # object.owner
     /\ Unwrap(old_object).owner.kind = "AddressOwner"
     /\ object.owner.kind = "AddressOwner"
  THEN <<DelOp("owner", OwnerIndexKey(Unwrap(old_object).owner.addr, Unwrap(old_object).id))>>
  ELSE <<>>

\* One changed object: delete the old key when the owner changed and an
\* address owned it before.
OldOwnerOps(object, old_object) ==
  IF old_object # None /\ Unwrap(old_object).owner # object.owner
     /\ Unwrap(old_object).owner.kind = "AddressOwner"
  THEN <<DelOp("owner", OwnerIndexKey(Unwrap(old_object).owner.addr, Unwrap(old_object).id))>>
  ELSE <<>>

\* Mutant: the key is inserted only when the table holds no entry for the
\* object yet.
NewOwnerOpsIfAbsent(object) ==
  IF object.owner.kind = "AddressOwner" /\ \A k \in DOMAIN owner : k[2] # object.id
  THEN <<PutOp("owner", OwnerIndexKey(object.owner.addr, object.id), OwnerIndexInfo(object))>>
  ELSE <<>>

\* Mutant: a key the table already holds keeps the value it has.
NewOwnerOpsKeepValue(object) ==
  IF object.owner.kind = "AddressOwner"
  THEN LET k == OwnerIndexKey(object.owner.addr, object.id)
       IN  <<PutOp("owner", k, IF k \in DOMAIN owner THEN owner[k] ELSE OwnerIndexInfo(object))>>
  ELSE <<>>

\* One changed object: insert or overwrite its key when an address owns it now.
NewOwnerOps(object) ==
  IF object.owner.kind = "AddressOwner"
  THEN <<PutOp("owner", OwnerIndexKey(object.owner.addr, object.id), OwnerIndexInfo(object))>>
  ELSE <<>>

RECURSIVE RemovedOps(_)
RemovedOps(removed) ==
  IF removed = <<>> THEN <<>>
  ELSE RemovedObjectOps(Head(removed)) \o RemovedOps(Tail(removed))

RECURSIVE ChangedOps(_)
ChangedOps(changed) ==
  IF changed = <<>> THEN <<>>
  ELSE OldOwnerOps(Head(changed).object, Head(changed).old_object)
       \o NewOwnerOps(Head(changed).object)
       \o ChangedOps(Tail(changed))

\* The deletions, and the insertions, staged for the transactions txs.
RECURSIVE StagedOwnerOps(_, _)
StagedOwnerOps(txs, op) ==
  IF txs = <<>> THEN <<>>
  ELSE SelectSeq(RemovedOps(Head(txs).removed) \o ChangedOps(Head(txs).changed),
                 LAMBDA o : o.op = op)
       \o StagedOwnerOps(Tail(txs), op)

\* Mutant: the batch carries every deletion of the checkpoint ahead of every
\* insertion.
OwnerOpsDeletesFirst(txs) == StagedOwnerOps(txs, "del") \o StagedOwnerOps(txs, "put")

\* The owner-index operations of the checkpoint's transactions, in order.
RECURSIVE OwnerOps(_)
OwnerOps(txs) ==
  IF txs = <<>> THEN <<>>
  ELSE RemovedOps(Head(txs).removed) \o ChangedOps(Head(txs).changed) \o OwnerOps(Tail(txs))

\* The transactions-index operations of the checkpoint.
TransactionOps(checkpoint) ==
  InsertDigests(checkpoint.checkpoint_contents,
                TransactionInfo(checkpoint.checkpoint_summary.sequence_number))

\* The batch index_checkpoint has staged when it reaches batch.write().
IndexCheckpointBatch(checkpoint) ==
  TransactionOps(checkpoint) \o OwnerOps(checkpoint.transactions)

\* ------------------------------------------------------------------- init

\* CheckpointStore::get_highest_executed_checkpoint_seq_number.
HighestExecuted == IF checkpoints = <<>> THEN None ELSE Some(Len(checkpoints) - 1)

\* CheckpointStore::get_highest_pruned_checkpoint_seq_number: the watermark,
\* 0 while nothing has been pruned.
HighestPruned == IF prunedCount = 0 THEN 0 ELSE prunedCount - 1

\* The contents of checkpoint seq, None once the checkpoint has been pruned.
GetCheckpointContents(seq) ==
  IF seq < prunedCount \/ seq >= Len(checkpoints) THEN None ELSE Some(checkpoints[seq + 1])

\* Mutant: the backfill starts at the checkpoint after the highest pruned one.
LowestAvailableAfterPruned == HighestPruned + 1

\* The first checkpoint init backfills.
LowestAvailableCheckpoint == HighestPruned

\* Whether init meets a checkpoint it cannot read.
InitMissing ==
  \E seq \in LowestAvailableCheckpoint..Unwrap(HighestExecuted) : GetCheckpointContents(seq) = None

\* Mutant: the backfill stops one checkpoint short of the highest executed.
RECURSIVE InitTransactionsBatchExclusive(_, _)
InitTransactionsBatchExclusive(lo, hi) ==
  IF lo >= hi THEN <<>>
  ELSE InsertDigests(Unwrap(GetCheckpointContents(lo)), TransactionInfo(lo))
       \o InitTransactionsBatchExclusive(lo + 1, hi)

\* Mutant: every backfilled digest gets the sequence number of the highest
\* executed checkpoint.
RECURSIVE InitTransactionsBatchHighest(_, _)
InitTransactionsBatchHighest(lo, hi) ==
  IF lo > hi THEN <<>>
  ELSE InsertDigests(Unwrap(GetCheckpointContents(lo)), TransactionInfo(hi))
       \o InitTransactionsBatchHighest(lo + 1, hi)

\* The batch init has staged for the transactions table when every checkpoint
\* of lo..hi could be read.
RECURSIVE InitTransactionsBatch(_, _)
InitTransactionsBatch(lo, hi) ==
  IF lo > hi THEN <<>>
  ELSE InsertDigests(Unwrap(GetCheckpointContents(lo)), TransactionInfo(lo))
       \o InitTransactionsBatch(lo + 1, hi)

\* iter_live_object_set(false).filter_map(LiveObject::to_normal), in key order.
RECURSIVE LiveObjectSet(_, _)
LiveObjectSet(l, ids) ==
  IF ids = <<>> THEN <<>>
  ELSE (IF l[Head(ids)].st = "live"
        THEN <<MkObject(Head(ids), l[Head(ids)].version, l[Head(ids)].owner)>>
        ELSE <<>>) \o LiveObjectSet(l, Tail(ids))

\* Mutant: init also indexes object-owned objects, under the parent's address.
InitOwnerBatchAnyParent(object) ==
  IF object.owner.kind \in {"AddressOwner", "ObjectOwner"}
  THEN <<PutOp("owner", OwnerIndexKey(object.owner.addr, object.id), OwnerIndexInfo(object))>>
  ELSE <<>>

\* Mutant: init deletes the keys the object has under other addresses before
\* it inserts the object's key.
InitOwnerBatchReplace(object) ==
  IF object.owner.kind = "AddressOwner"
  THEN (LET stale == {k \in DOMAIN owner : k[2] = object.id /\ k[1] # object.owner.addr}
        IN  IF stale = {} THEN <<>>
            ELSE <<DelOp("owner", CHOOSE k \in stale : TRUE)>>)
       \o <<PutOp("owner", OwnerIndexKey(object.owner.addr, object.id), OwnerIndexInfo(object))>>
  ELSE <<>>

\* The single-entry batch init writes for one live object (none when no
\* address owns it).
InitOwnerBatch(object) ==
  IF object.owner.kind = "AddressOwner"
  THEN <<PutOp("owner", OwnerIndexKey(object.owner.addr, object.id), OwnerIndexInfo(object))>>
  ELSE <<>>

\* Mutant: the emptiness check looks at both tables.
IsEmptyBothTables(tables) ==
  DOMAIN tables.transactions = {} /\ DOMAIN tables.owner = {}

\* IndexStoreTables::is_empty.
IsEmpty(tables) == DOMAIN tables.transactions = {}

\* RestIndexStore::new finds the tables populated: no init.
NewOpen ==
  /\ pc = "down"
  /\ ~IsEmpty(Tables)
  /\ pc' = "idle"
  /\ UNCHANGED <<envVars, pending, applied, transactions, owner, boot, iter, batch,
                 pruneVars, initKeys>>

\* The insertions for the checkpoints of lo..hi that can be read.
RECURSIVE ReadableTransactionsBatch(_, _)
ReadableTransactionsBatch(lo, hi) ==
  IF lo > hi THEN <<>>
  ELSE (IF GetCheckpointContents(lo) = None THEN <<>>
        ELSE InsertDigests(Unwrap(GetCheckpointContents(lo)), TransactionInfo(lo)))
       \o ReadableTransactionsBatch(lo + 1, hi)

\* Mutant: init writes a batch per checkpoint, so that the checkpoints it
\* could read are in the table when it meets one it cannot.
NewInitWritesReadable ==
  /\ pc = "down"
  /\ IsEmpty(Tables)
  /\ LET b == IF HighestExecuted = None THEN <<>>
              ELSE ReadableTransactionsBatch(LowestAvailableCheckpoint,
                                             Unwrap(HighestExecuted))
         t == BatchWrite(Tables, b)
     IN  /\ transactions' = t.transactions
         /\ owner' = t.owner
  /\ IF HighestExecuted # None /\ InitMissing
     THEN /\ pc' = "down"
          /\ boot' = "missing"
          /\ iter' = <<>>
          /\ initKeys' = initKeys
     ELSE /\ pc' = "init_owner"
          /\ boot' = "running"
          /\ iter' = LiveObjectSet(live, ObjectIds)
          /\ initKeys' = DOMAIN owner
  /\ UNCHANGED <<envVars, pending, applied, batch, pruneVars>>

\* RestIndexStore::new_without_init: the tables are opened as they are, for
\* inspection; no checkpoint pipeline is attached to such a store.
NewWithoutInit ==
  /\ pc = "down"
  /\ pc' = "inspect"
  /\ UNCHANGED <<envVars, pending, applied, transactions, owner, boot, iter, batch,
                 pruneVars, initKeys>>

\* The store opened for inspection is dropped.
InspectClose ==
  /\ pc = "inspect"
  /\ pc' = "down"
  /\ UNCHANGED <<envVars, pending, applied, transactions, owner, boot, iter, batch,
                 pruneVars, initKeys>>

\* RestIndexStore::new finds the tables empty and init runs up to the write of
\* the transactions batch.
NewInit ==
  /\ pc = "down"
  /\ IsEmpty(Tables)
  /\ IF HighestExecuted # None /\ InitMissing
     THEN /\ pc' = "down"
          /\ boot' = "missing"
          /\ iter' = <<>>
          /\ UNCHANGED <<transactions, owner, initKeys>>
     ELSE /\ LET b == IF HighestExecuted = None THEN <<>>
                      ELSE InitTransactionsBatch(LowestAvailableCheckpoint,
                                                 Unwrap(HighestExecuted))
                 t == BatchWrite(Tables, b)
             IN  /\ transactions' = t.transactions
                 /\ owner' = t.owner
          /\ pc' = "init_owner"
          /\ boot' = "running"
          /\ iter' = LiveObjectSet(live, ObjectIds)
          /\ initKeys' = DOMAIN owner
  /\ UNCHANGED <<envVars, pending, applied, batch, pruneVars>>

\* A storage error before the transactions batch is written: init returns Err
\* and the unwrap in RestIndexStore::new ends the process.
InitTxError ==
  /\ pc = "down"
  /\ IsEmpty(Tables)
  /\ boot' = "error_tx"
  /\ UNCHANGED <<envVars, pending, applied, transactions, owner, pc, iter, batch,
                 pruneVars, initKeys>>

\* init writes the batch of the next live object.
InitOwnerStep ==
  /\ pc = "init_owner"
  /\ iter # <<>>
  /\ LET t == BatchWrite(Tables, InitOwnerBatch(Head(iter)))
     IN  /\ transactions' = t.transactions
         /\ owner' = t.owner
  /\ iter' = Tail(iter)
  /\ UNCHANGED <<envVars, pending, applied, pc, boot, batch, pruneVars, initKeys>>

\* init returns Ok and RestIndexStore::new returns the store.
InitFinish ==
  /\ pc = "init_owner"
  /\ iter = <<>>
  /\ pc' = "idle"
  /\ boot' = "done"
  /\ UNCHANGED <<envVars, pending, applied, transactions, owner, iter, batch,
                 pruneVars, initKeys>>

\* A storage error on the next object's batch: init returns Err and the
\* unwrap in RestIndexStore::new ends the process.
InitError ==
  /\ pc = "init_owner"
  /\ iter # <<>>
  /\ pc' = "down"
  /\ boot' = "error_owner"
  /\ iter' = <<>>
  /\ UNCHANGED <<envVars, pending, applied, transactions, owner, batch, pruneVars,
                 initKeys>>

\* ------------------------------------------------------- index_checkpoint

\* index_checkpoint stages the checkpoint's batch.
IndexStage ==
  /\ pc = "idle"
  /\ pending # None
  /\ applied = 0
  /\ batch' = IndexCheckpointBatch(Unwrap(pending))
  /\ pc' = "staged"
  /\ UNCHANGED <<envVars, pending, applied, transactions, owner, boot, iter,
                 pruneVars, initKeys>>

\* Mutant: the write lands the staged Transaction Index operations only, as
\* if each table had a batch of its own and the second were lost.
IndexWriteTorn ==
  /\ pc = "staged"
  /\ LET t == BatchWrite(Tables, SelectSeq(batch, LAMBDA o : o.table = "transactions"))
     IN  /\ transactions' = t.transactions
         /\ owner' = t.owner
  /\ batch' = <<>>
  /\ pc' = "idle"
  /\ applied' = applied + 1
  /\ UNCHANGED <<envVars, pending, boot, iter, pruneVars, initKeys>>

\* batch.write() succeeds and index_checkpoint returns Ok.
IndexWrite ==
  /\ pc = "staged"
  /\ LET t == BatchWrite(Tables, batch)
     IN  /\ transactions' = t.transactions
         /\ owner' = t.owner
  /\ batch' = <<>>
  /\ pc' = "idle"
  /\ applied' = applied + 1
  /\ UNCHANGED <<envVars, pending, boot, iter, pruneVars, initKeys>>

\* index_checkpoint from its call to its return of Ok.
IndexCheckpoint ==
  /\ pc = "idle"
  /\ pending # None
  /\ applied < MaxApply
  /\ LET t == BatchWrite(Tables, IndexCheckpointBatch(Unwrap(pending)))
     IN  /\ transactions' = t.transactions
         /\ owner' = t.owner
  /\ applied' = applied + 1
  /\ UNCHANGED <<envVars, pending, pc, boot, iter, batch, pruneVars, initKeys>>

\* A storage error: index_checkpoint returns Err and drops the batch.
IndexError ==
  /\ pc = "staged"
  /\ batch' = <<>>
  /\ pc' = "idle"
  /\ UNCHANGED <<envVars, pending, applied, transactions, owner, boot, iter,
                 pruneVars, initKeys>>

\* ------------------------------------------------------------------ prune

\* Mutant: prune stages insertions where it should stage deletions.
RECURSIVE PruneBatchInserts(_)
PruneBatchInserts(checkpoint_contents_to_prune) ==
  IF checkpoint_contents_to_prune = <<>> THEN <<>>
  ELSE InsertDigests(Head(checkpoint_contents_to_prune), TransactionInfo(0))
       \o PruneBatchInserts(Tail(checkpoint_contents_to_prune))

\* The batch prune has staged when it reaches batch.write().
RECURSIVE PruneBatch(_)
PruneBatch(checkpoint_contents_to_prune) ==
  IF checkpoint_contents_to_prune = <<>> THEN <<>>
  ELSE DeleteDigests(Head(checkpoint_contents_to_prune))
       \o PruneBatch(Tail(checkpoint_contents_to_prune))

\* Checkpoints the index has been given: all but one still waiting for its
\* first index_checkpoint.
IndexedCount == Len(checkpoints) - (IF pending # None /\ applied = 0 THEN 1 ELSE 0)

\* The pruner calls prune with the contents of checkpoints lo..hi-1: those it
\* is pruning now, and possibly some it pruned before.
PruneStage ==
  /\ pc \in {"idle", "staged"}
  /\ prunePc = "idle"
  /\ \E lo \in 0..prunedCount : \E hi \in lo..IndexedCount :
       /\ pruneArg' = SubSeq(checkpoints, lo + 1, hi)
       /\ pruneBatch' = PruneBatch(pruneArg')
       /\ pruneTo' = IF hi > prunedCount THEN hi ELSE prunedCount
  /\ prunePc' = "staged"
  /\ UNCHANGED <<envVars, pending, applied, transactions, owner, pc, boot, iter,
                 batch, initKeys>>

\* Mutant: prune and index_checkpoint share one batch object, so that the
\* write of prune takes along what index_checkpoint has staged and leaves
\* index_checkpoint with an empty batch.
PruneWriteSharedBatch ==
  /\ prunePc = "staged"
  /\ LET t == BatchWrite(Tables, pruneBatch)
     IN  /\ transactions' = t.transactions
         /\ owner' = t.owner
  /\ prunedCount' = pruneTo
  /\ prunePc' = "idle"
  /\ pruneArg' = <<>>
  /\ pruneBatch' = <<>>
  /\ pruneTo' = 0
  /\ batch' = <<>>
  /\ UNCHANGED <<live, checkpoints, incremental, pending, applied, pc, boot, iter,
                 initKeys>>

\* batch.write() succeeds and prune returns Ok; the pruner drops the pruned
\* checkpoints from the checkpoint store and moves its watermark.
PruneWrite ==
  /\ prunePc = "staged"
  /\ LET t == BatchWrite(Tables, pruneBatch)
     IN  /\ transactions' = t.transactions
         /\ owner' = t.owner
  /\ prunedCount' = pruneTo
  /\ prunePc' = "idle"
  /\ pruneArg' = <<>>
  /\ pruneBatch' = <<>>
  /\ pruneTo' = 0
  /\ UNCHANGED <<live, checkpoints, incremental, pending, applied, pc, boot, iter,
                 batch, initKeys>>

\* prune from its call to its return of Ok, and the pruner's move of its
\* watermark.
PruneRange(lo, hi) ==
  /\ pc \in {"idle", "staged"}
  /\ prunePc = "idle"
  /\ lo \in 0..prunedCount
  /\ hi \in lo..IndexedCount
  /\ prunedCount' = IF hi > prunedCount THEN hi ELSE prunedCount
  /\ UNCHANGED <<live, checkpoints, incremental, pending, applied, pc, boot, iter, batch,
                 pruneVars, initKeys>>
  /\ LET t == BatchWrite(Tables, PruneBatch(SubSeq(checkpoints, lo + 1, hi)))
     IN  /\ transactions' = t.transactions
         /\ owner' = t.owner

\* The pruner prunes the checkpoints lo..hi-1: those it has not pruned yet up
\* to its new watermark, and possibly some, or only some, it pruned before.
Prune == \E lo \in 0..prunedCount : \E hi \in lo..IndexedCount : PruneRange(lo, hi)

\* A storage error: prune returns Err, nothing is pruned.
PruneError ==
  /\ prunePc = "staged"
  /\ prunePc' = "idle"
  /\ pruneArg' = <<>>
  /\ pruneBatch' = <<>>
  /\ pruneTo' = 0
  /\ UNCHANGED <<envVars, pending, applied, transactions, owner, pc, boot, iter,
                 batch, initKeys>>

\* ------------------------------------------------------------ environment

\* The node executes the next checkpoint.  With the index store constructed the
\* pipeline hands the checkpoint to index_checkpoint; a node that has never
\* had an index executes without one.
ExecuteCheckpoint ==
  /\ NextDigest <= MaxTxs
  /\ pending = None
  /\ \/ pc = "idle"
     \/ pc = "down" /\ boot = "never"
  /\ \E r \in CpRuns(live, NextDigest, MaxTxs - NextDigest + 1) :
       /\ live' = r.live
       /\ checkpoints' = Append(checkpoints, Digests(r.txs))
       /\ pending' = IF pc = "idle"
                     THEN Some(CheckpointData(Len(checkpoints), r.txs))
                     ELSE None
       /\ incremental' = BatchWrite(incremental,
                            IndexCheckpointBatch(CheckpointData(Len(checkpoints), r.txs)))
  /\ applied' = 0
  /\ UNCHANGED <<prunedCount, transactions, owner, pc, boot, iter, batch, pruneVars,
                 initKeys>>

\* The genesis transaction: it created every object of the genesis state l.
GenesisTx(l) ==
  [digest |-> 1,
   removed |-> <<>>,
   changed |-> ChangedObjects([id \in Objects |-> NoObject],
                              [id \in Objects |->
                                 IF l[id].st = "live" THEN SetOwner(l[id].owner) ELSE Skip],
                              1, ObjectIds)]

\* A node started on a genesis state executes the genesis checkpoint, whose
\* objects its store has held from the start; the pipeline hands it to
\* index_checkpoint when the index store is constructed.
ExecuteGenesis ==
  /\ checkpoints = <<>>
  /\ pending = None
  /\ pc \in {"idle", "down"}
  /\ checkpoints' = <<Digests(<<GenesisTx(live)>>)>>
  /\ pending' = IF pc = "idle"
                THEN Some(CheckpointData(0, <<GenesisTx(live)>>))
                ELSE None
  /\ incremental' = BatchWrite(incremental,
                               IndexCheckpointBatch(CheckpointData(0, <<GenesisTx(live)>>)))
  /\ applied' = 0
  /\ UNCHANGED <<live, prunedCount, transactions, owner, pc, boot, iter, batch, pruneVars,
                 initKeys>>

\* The node executes a checkpoint after the genesis checkpoint.
ExecuteLater ==
  /\ checkpoints # <<>>
  /\ ExecuteCheckpoint

\* The node runs with the index switched off before the index has been
\* built: it executes the next checkpoint and nothing is handed to the index.
ExecuteWithoutIndex ==
  /\ checkpoints # <<>>
  /\ NextDigest <= MaxTxs
  /\ pending = None
  /\ pc = "down"
  /\ IsEmpty(Tables)
  /\ \E r \in CpRuns(live, NextDigest, MaxTxs - NextDigest + 1) :
       /\ live' = r.live
       /\ checkpoints' = Append(checkpoints, Digests(r.txs))
       /\ incremental' = BatchWrite(incremental,
                            IndexCheckpointBatch(CheckpointData(Len(checkpoints), r.txs)))
  /\ UNCHANGED <<prunedCount, pending, applied, transactions, owner, pc, boot, iter, batch,
                 pruneVars, initKeys>>

\* The pipeline moves on once index_checkpoint has returned Ok.
CheckpointDone ==
  /\ pc = "idle"
  /\ pending # None
  /\ applied >= 1
  /\ pending' = None
  /\ applied' = 0
  /\ UNCHANGED <<envVars, transactions, owner, pc, boot, iter, batch, pruneVars,
                 initKeys>>

\* A node that has never had an index prunes its checkpoint store.
PruneStoreOnly ==
  /\ pc = "down"
  /\ boot = "never"
  /\ \E hi \in (prunedCount + 1)..Len(checkpoints) : prunedCount' = hi
  /\ UNCHANGED <<live, checkpoints, incremental, pending, applied, transactions, owner, pc,
                 boot, iter, batch, pruneVars, initKeys>>

\* The process stops at any point: staged batches and iterators are lost, the
\* tables keep what has been written.  After the restart the pipeline hands
\* the checkpoint it was on to index_checkpoint again.
Crash ==
  /\ pc \in {"init_owner", "idle", "staged"}
  /\ pc' = "down"
  /\ boot' = IF pc = "init_owner" THEN "crashed" ELSE boot
  /\ iter' = <<>>
  /\ batch' = <<>>
  /\ prunePc' = "idle"
  /\ pruneArg' = <<>>
  /\ pruneBatch' = <<>>
  /\ pruneTo' = 0
  /\ applied' = 0
  /\ UNCHANGED <<envVars, pending, transactions, owner, initKeys>>

\* ---------------------------------------------------------- specifications

\* Nothing executed, nothing indexed.
InitEmpty ==
  /\ live = [id \in Objects |-> NoObject]
  /\ checkpoints = <<>>
  /\ prunedCount = 0
  /\ pending = None
  /\ applied = 0
  /\ transactions = EmptyMap
  /\ owner = EmptyMap
  /\ iter = <<>>
  /\ batch = <<>>
  /\ prunePc = "idle"
  /\ pruneArg = <<>>
  /\ pruneBatch = <<>>
  /\ pruneTo = 0
  /\ incremental = [transactions |-> EmptyMap, owner |-> EmptyMap]
  /\ initKeys = {}

\* A node whose index store does not exist yet.
Init ==
  /\ InitEmpty
  /\ pc = "down"
  /\ boot = "never"

Next ==
  \/ NewOpen
  \/ NewInit
  \/ InitTxError
  \/ InitOwnerStep
  \/ InitFinish
  \/ InitError
  \/ IndexStage
  \/ IndexWrite
  \/ IndexError
  \/ Prune
  \/ ExecuteCheckpoint
  \/ CheckpointDone
  \/ PruneStoreOnly
  \/ Crash

\* The whole system: construction at any time, storage errors, crashes,
\* indexing and pruning.
Spec == Init /\ [][Next]_vars

\* The index store is constructed at genesis and every checkpoint is indexed
\* as it is executed.
InitInc ==
  /\ InitEmpty
  /\ pc = "idle"
  /\ boot = "done"

NextInc ==
  \/ ExecuteCheckpoint
  \/ IndexCheckpoint
  \/ CheckpointDone

SpecInc == InitInc /\ [][NextInc]_vars

\* A node that has executed checkpoints without an index constructs the index
\* store, which bootstraps, and indexes every later checkpoint; no storage
\* error, no crash, no pruning.
NextBoot ==
  \/ ExecuteCheckpoint
  \/ NewInit
  \/ InitOwnerStep
  \/ InitFinish
  \/ IndexCheckpoint
  \/ CheckpointDone

SpecBoot == Init /\ [][NextBoot]_vars

\* The index store is constructed at genesis; checkpoints are indexed as they
\* are executed while the pruner prunes behind them; no storage error, no
\* crash.
NextPrune ==
  \/ ExecuteCheckpoint
  \/ IndexStage
  \/ IndexWrite
  \/ CheckpointDone
  \/ Prune

SpecPrune == InitInc /\ [][NextPrune]_vars

\* The whole system, and stores opened without initialization in between.
NextOpen ==
  \/ NewOpen
  \/ NewInit
  \/ InitTxError
  \/ InitOwnerStep
  \/ InitFinish
  \/ InitError
  \/ NewWithoutInit
  \/ InspectClose
  \/ IndexStage
  \/ IndexWrite
  \/ IndexError
  \/ Prune
  \/ ExecuteCheckpoint
  \/ CheckpointDone
  \/ PruneStoreOnly
  \/ Crash

SpecOpen == Init /\ [][NextOpen]_vars

\* The index store is constructed at genesis; the pipeline indexes each
\* checkpoint while the pruner, a separate caller, is anywhere in a prune call
\* over checkpoints indexed earlier.
NextConc ==
  \/ ExecuteCheckpoint
  \/ IndexStage
  \/ IndexWrite
  \/ CheckpointDone
  \/ PruneStage
  \/ PruneWrite

SpecConc == InitInc /\ [][NextConc]_vars

\* The genesis states: every object absent or created at genesis, one at
\* least created.
GenesisLive ==
  {l \in [Objects -> {NoObject} \cup {LiveObject(1, o) : o \in Owners}] :
     \E id \in Objects : l[id].st = "live"}

\* A node started on a genesis state: its store holds the genesis objects, no
\* checkpoint has executed, its index store does not exist yet.
InitGenesis ==
  /\ live \in GenesisLive
  /\ checkpoints = <<>>
  /\ prunedCount = 0
  /\ pending = None
  /\ applied = 0
  /\ transactions = EmptyMap
  /\ owner = EmptyMap
  /\ pc = "down"
  /\ boot = "never"
  /\ iter = <<>>
  /\ batch = <<>>
  /\ prunePc = "idle"
  /\ pruneArg = <<>>
  /\ pruneBatch = <<>>
  /\ pruneTo = 0
  /\ incremental = [transactions |-> EmptyMap, owner |-> EmptyMap]
  /\ initKeys = {}

\* A node from its genesis state on: construction at any time, storage errors
\* and crashes during init, indexing, the index switched off at times.
NextGenesis ==
  \/ NewOpen
  \/ NewInit
  \/ InitOwnerStep
  \/ InitFinish
  \/ InitError
  \/ IndexStage
  \/ IndexWrite
  \/ ExecuteGenesis
  \/ ExecuteLater
  \/ ExecuteWithoutIndex
  \/ CheckpointDone
  \/ PruneStoreOnly
  \/ Crash

SpecGenesis == InitGenesis /\ [][NextGenesis]_vars

\* ------------------------------------------------------- shared predicates

\* An init call has written its transactions batch.
Backfilled == boot \in {"running", "done", "error_owner", "crashed"}

\* The index has been given every executed checkpoint.
Caught == pending = None \/ applied >= 1

\* {(owner, object_id) : the object is live and a single address owns it}.
LiveAddressOwned ==
  {OwnerIndexKey(live[id].owner.addr, id) :
     id \in {x \in Objects : live[x].st = "live" /\ live[x].owner.kind = "AddressOwner"}}

\* The removed objects and the changed objects of the pending checkpoint.
PendingRemoved ==
  IF pending = None THEN {}
  ELSE UNION {{tx.removed[i] : i \in 1..Len(tx.removed)} :
              tx \in {Unwrap(pending).transactions[j] :
                        j \in 1..Len(Unwrap(pending).transactions)}}

PendingChanged ==
  IF pending = None THEN {}
  ELSE UNION {{tx.changed[i] : i \in 1..Len(tx.changed)} :
              tx \in {Unwrap(pending).transactions[j] :
                        j \in 1..Len(Unwrap(pending).transactions)}}

\* The transaction digests of checkpoint seq.
CheckpointDigests(seq) == {checkpoints[seq + 1][i] : i \in 1..Len(checkpoints[seq + 1])}

\* The transaction digests of the checkpoints lo..hi.
WindowDigests(lo, hi) == UNION {CheckpointDigests(seq) : seq \in lo..hi}

\* A changed object of the pending checkpoint that is the object's current
\* state and whose owner went from an address to something else.
LeftAddress(c) ==
  /\ c.old_object # None
  /\ Unwrap(c.old_object).owner.kind = "AddressOwner"
  /\ c.object.owner # Unwrap(c.old_object).owner
  /\ live[c.object.id].st = "live"
  /\ live[c.object.id].version = c.object.version

\* ------------------------------------------------------------------ claims

\* C1: indexing checkpoints 0..N in order from an empty index leaves the
\* Owner Index with exactly the keys (owner, object_id) of the objects that
\* are live after checkpoint N and owned by a single address.
C1_OwnerIndexCorrect == Caught => DOMAIN owner = LiveAddressOwned

\* C1 witness: the second or a later checkpoint has been indexed, it removed
\* an address-owned object, and another address-owned object is still indexed.
C1_Witness ==
  /\ pending # None
  /\ applied >= 1
  /\ Unwrap(pending).checkpoint_summary.sequence_number >= 1
  /\ \E r \in PendingRemoved : r.owner.kind = "AddressOwner"
  /\ DOMAIN owner # {}

\* C4: handing index_checkpoint a checkpoint it has already written leaves
\* both tables as the first write left them.
C4_IdempotentCheckpoint ==
  [][(pending # None /\ applied >= 1 /\ applied' = applied + 1)
       => (transactions' = transactions /\ owner' = owner)]_vars

\* C4 witness: a checkpoint that moved an object from one address to another
\* has been written twice.
C4_Witness ==
  /\ applied = 2
  /\ \E c \in PendingChanged :
       /\ c.old_object # None
       /\ Unwrap(c.old_object).owner.kind = "AddressOwner"
       /\ c.object.owner.kind = "AddressOwner"
       /\ c.object.owner # Unwrap(c.old_object).owner

C3_BootstrapEquivalence ==
  ((pc = "init_owner" /\ iter = <<>>) \/ (pc = "idle" /\ Caught)) => Tables = incremental

\* C3 witness: init has gone through a snapshot taken after two checkpoints
\* or more, with an address-owned object and a live one no address owns.
C3_Witness ==
  /\ pc = "init_owner"
  /\ iter = <<>>
  /\ Len(checkpoints) >= 2
  /\ DOMAIN owner # {}
  /\ \E id \in Objects : live[id].st = "live" /\ live[id].owner.kind # "AddressOwner"

\* C5: a prune call given the contents of checkpoints lo..hi-1 leaves the
\* Transaction Index as it was minus exactly their digests, absent ones
\* included, all other entries with their values.
C5_PruneExact ==
  [][\A lo \in 0..prunedCount : \A hi \in lo..IndexedCount :
       PruneRange(lo, hi)
         => transactions' = [d \in (DOMAIN transactions) \ WindowDigests(lo, hi - 1)
                               |-> transactions[d]]]_vars

\* C5 witness: a checkpoint of two transactions has been pruned and entries
\* of a later checkpoint remain.
C5_Witness ==
  /\ prunedCount >= 1
  /\ Len(checkpoints[1]) = 2
  /\ DOMAIN transactions # {}

\* C6 (as claimed): an init call that ended in an error or a crash before it
\* had inserted every live address-owned object has left the Transaction
\* Index empty, so that the next RestIndexStore::new runs init again.
C6_FailedBootstrapLeavesEmpty ==
  (pc = "down" /\ boot \in {"missing", "error_tx", "error_owner", "crashed"}
     /\ DOMAIN owner # LiveAddressOwned)
    => IsEmpty(Tables)

\* C7: with every executed checkpoint indexed, no Owner Index key is that of
\* a live object owned by an object, shared or immutable.
C7_OwnershipKindExclusion ==
  Caught => \A k \in DOMAIN owner :
              ~(live[k[2]].st = "live" /\ live[k[2]].owner.kind # "AddressOwner")

\* C7 witness: the indexed checkpoint made an address-owned object
\* object-owned, shared or immutable.
C7_Witness ==
  /\ pending # None
  /\ applied >= 1
  /\ \E c \in PendingChanged : LeftAddress(c) /\ c.object.owner.kind # "AddressOwner"

\* C8: no object id has keys under two addresses, and an indexed transfer
\* from address A to address B leaves (B, id) present and (A, id) absent.
C8_UniquePerObject ==
  /\ \A k1 \in DOMAIN owner, k2 \in DOMAIN owner : k1[2] = k2[2] => k1 = k2
  /\ Caught =>
       \A c \in PendingChanged :
         (LeftAddress(c) /\ c.object.owner.kind = "AddressOwner")
           => /\ OwnerIndexKey(c.object.owner.addr, c.object.id) \in DOMAIN owner
              /\ OwnerIndexKey(Unwrap(c.old_object).owner.addr, c.object.id) \notin DOMAIN owner

\* C8 witness: the indexed checkpoint moved an object from one address to
\* another while the other object is address-owned too.
C8_Witness ==
  /\ pending # None
  /\ applied >= 1
  /\ \E c \in PendingChanged : LeftAddress(c) /\ c.object.owner.kind = "AddressOwner"
  /\ Cardinality(DOMAIN owner) = 2

\* C9: while index_checkpoint is between its call and its return, the tables
\* change in one step to the result of the checkpoint's whole batch when the
\* write succeeds, and not at all when it returns an error or the process
\* crashes; staging changes nothing.
C9_CheckpointAtomic ==
  [][/\ (pc = "idle" /\ pc' = "staged") => (transactions' = transactions /\ owner' = owner)
     /\ (pc = "staged" /\ prunedCount' = prunedCount)
          => IF pc' = "idle" /\ applied' = applied + 1
             THEN [transactions |-> transactions', owner |-> owner']
                    = BatchWrite(Tables, IndexCheckpointBatch(Unwrap(pending)))
             ELSE transactions' = transactions /\ owner' = owner]_vars

\* C9 witness: index_checkpoint has staged insertions into the Transaction
\* Index together with a deletion from and an insertion into the Owner Index.
C9_Witness ==
  /\ pc = "staged"
  /\ \E i \in 1..Len(batch) : batch[i].table = "transactions"
  /\ \E i \in 1..Len(batch) : batch[i].table = "owner" /\ batch[i].op = "del"
  /\ \E i \in 1..Len(batch) : batch[i].table = "owner" /\ batch[i].op = "put"

\* C10: a prune call leaves the Owner Index as it was, and every entry the
\* Transaction Index holds afterwards was there before with the same value.
C10_PruneFrame ==
  [][\A lo \in 0..prunedCount : \A hi \in lo..IndexedCount :
       PruneRange(lo, hi)
         => /\ owner' = owner
            /\ \A d \in DOMAIN transactions' :
                 d \in DOMAIN transactions /\ transactions'[d] = transactions[d]]_vars

\* C10 witness: checkpoints have been pruned while the Owner Index holds
\* entries and the Transaction Index still holds some.
C10_Witness ==
  /\ prunedCount >= 1
  /\ DOMAIN owner # {}
  /\ DOMAIN transactions # {}
  /\ pc = "idle"

\* C11: when RestIndexStore::new finds the tables empty and a checkpoint of
\* the backfill range cannot be read, init ends with its missing-data error
\* (or an earlier storage error): the store is not constructed, and both
\* tables are as they were.
C11_MissingDataFatal ==
  [][(/\ pc = "down"
      /\ IsEmpty(Tables)
      /\ HighestExecuted # None
      /\ \E seq \in HighestPruned..Unwrap(HighestExecuted) : GetCheckpointContents(seq) = None
      /\ boot' # boot)
       => /\ boot' \in {"missing", "error_tx"}
          /\ pc' = "down"
          /\ transactions' = transactions
          /\ owner' = owner]_vars

\* C11 witness: init has failed on a pruned checkpoint while later checkpoints
\* could be read and address-owned objects are live.
C11_Witness ==
  /\ boot = "missing"
  /\ prunedCount >= 1
  /\ Len(checkpoints) > prunedCount
  /\ LiveAddressOwned # {}

\* C12: is_empty is the emptiness of the Transaction Index; a construction by
\* RestIndexStore::new enters init only when the Transaction Index is empty
\* and returns the store without init only when it is not, whatever the Owner
\* Index holds; a construction by new_without_init never enters init and
\* leaves both tables as they are.
C12_BootstrapGating ==
  [][/\ IsEmpty(Tables) <=> (DOMAIN transactions = {})
     /\ (pc = "down" /\ boot' # boot) => DOMAIN transactions = {}
     /\ (pc = "down" /\ pc' = "idle")
          => (DOMAIN transactions # {} /\ boot' = boot
              /\ transactions' = transactions /\ owner' = owner)
     /\ (pc = "down" /\ pc' = "inspect")
          => (boot' = boot /\ transactions' = transactions /\ owner' = owner)
     /\ pc = "inspect" => (boot' = boot /\ transactions' = transactions /\ owner' = owner)]_vars

\* C12 witness: a store has been opened without initialization on tables
\* whose Transaction Index is empty and whose Owner Index is not, after an
\* init call on such tables.
C12_Witness ==
  /\ pc = "inspect"
  /\ DOMAIN transactions = {}
  /\ DOMAIN owner # {}
  /\ boot = "missing"

\* The tables left by index_checkpoint calls for checkpoints 0, 1, ... in
\* order followed by a prune call for the checkpoints 0..n-1.
SequentialTables(n) ==
  [transactions |-> [d \in (DOMAIN incremental.transactions) \ WindowDigests(0, n - 1)
                       |-> incremental.transactions[d]],
   owner |-> incremental.owner]

\* C13: with prune calls and index_checkpoint calls for later checkpoints
\* interleaved in every way, whenever index_checkpoint has returned both
\* tables are those of the same calls run one after the other; in every
\* state in between no object id has Owner Index keys under two addresses,
\* and the tables are one write of the checkpoint's batch away from those.
C13_PruneConcurrent ==
  /\ (pc = "idle" /\ Caught) => Tables = SequentialTables(prunedCount)
  /\ \A k1 \in DOMAIN owner, k2 \in DOMAIN owner : k1[2] = k2[2] => k1 = k2
  /\ ~Caught => BatchWrite(Tables, IndexCheckpointBatch(Unwrap(pending)))
                  = SequentialTables(prunedCount)

\* C13 witness: a prune call and an index_checkpoint call for a later
\* checkpoint have both staged their batch and neither has written it.
C13_Witness ==
  /\ prunePc = "staged"
  /\ pc = "staged"
  /\ pruneBatch # <<>>
  /\ \E i \in 1..Len(batch) : batch[i].table = "owner"

\* The tables after index_checkpoint calls for the transactions txs, each as
\* a checkpoint of its own.
RECURSIVE IndexEachTransaction(_, _)
IndexEachTransaction(tables, txs) ==
  IF txs = <<>> THEN tables
  ELSE IndexEachTransaction(
         BatchWrite(tables, IndexCheckpointBatch(CheckpointData(0, <<Head(txs)>>))),
         Tail(txs))

\* C14: the first index_checkpoint call for a checkpoint leaves the Owner
\* Index as indexing its transactions one by one, in order, would, and that
\* is the state of every object after the checkpoint's last transaction.
C14_LastWriterWins ==
  [][(pending # None /\ applied = 0 /\ applied' = 1)
       => /\ owner' = IndexEachTransaction(Tables, Unwrap(pending).transactions).owner
          /\ DOMAIN owner' = LiveAddressOwned
          /\ \A k \in DOMAIN owner' :
               owner'[k] = OwnerIndexInfo(MkObject(k[2], live[k[2]].version, live[k[2]].owner))]_vars

\* C14 witness: the indexed checkpoint moved an object to one address and, in
\* a later transaction, from there to another.
C14_Witness ==
  /\ pending # None
  /\ applied = 1
  /\ \E i \in 1..Len(Unwrap(pending).transactions),
        j \in 1..Len(Unwrap(pending).transactions) :
       /\ i < j
       /\ \E c \in {Unwrap(pending).transactions[i].changed[n] :
                      n \in 1..Len(Unwrap(pending).transactions[i].changed)},
             e \in {Unwrap(pending).transactions[j].changed[n] :
                      n \in 1..Len(Unwrap(pending).transactions[j].changed)} :
            /\ c.object.id = e.object.id
            /\ c.object.owner.kind = "AddressOwner"
            /\ e.object.owner.kind = "AddressOwner"
            /\ c.object.owner # e.object.owner

\* The sequence number of the checkpoint whose contents include digest d.
CheckpointOf(d) == CHOOSE seq \in 0..(Len(checkpoints) - 1) : d \in CheckpointDigests(seq)

C16_BootstrapOnce ==
  [][/\ boot = "done" => boot' = "done"
     /\ applied' = applied + 1 => (pc # "init_owner" /\ boot # "running")]_vars

\* C17: every entry of the Transaction Index, written by init or by
\* index_checkpoint, carries the sequence number of the checkpoint whose
\* contents include its digest.
C17_TransactionEntryValue ==
  \A d \in DOMAIN transactions : transactions[d] = TransactionInfo(CheckpointOf(d))

\* C17 witness: the store was constructed after checkpoints had executed, a
\* later checkpoint has been indexed, and entries of both are held.
C17_Witness ==
  /\ boot = "done"
  /\ pending # None
  /\ applied = 1
  /\ Unwrap(pending).checkpoint_summary.sequence_number >= 1
  /\ \E d \in DOMAIN transactions : transactions[d].checkpoint = 0
  /\ \E d \in DOMAIN transactions : transactions[d].checkpoint >= 1

\* A changed object whose address owner stayed the same.
MutatedInPlace(c) ==
  /\ c.old_object # None
  /\ c.object.owner.kind = "AddressOwner"
  /\ Unwrap(c.old_object).owner = c.object.owner
  /\ Unwrap(c.old_object).version # c.object.version

\* C18: once init has gone through the live-object set, and after every
\* index_checkpoint call in order, every Owner Index entry carries the version
\* and the type of its object's live state; a changed object whose address
\* owner stayed the same has no deletion staged for it.
C18_OwnerEntryFresh ==
  /\ ((pc = "init_owner" /\ iter = <<>>) \/ (pc = "idle" /\ Caught))
       => \A k \in DOMAIN owner :
            /\ live[k[2]].st = "live"
            /\ owner[k] = OwnerIndexInfo(MkObject(k[2], live[k[2]].version, live[k[2]].owner))
  /\ \A c \in PendingChanged :
       MutatedInPlace(c) => OldOwnerOps(c.object, c.old_object) = <<>>

\* C18 witness: the indexed checkpoint mutated an object an address keeps
\* owning, on an index built by init.
C18_Witness ==
  /\ pc = "idle"
  /\ pending # None
  /\ applied >= 1
  /\ Len(checkpoints) >= 2
  /\ \E c \in PendingChanged :
       /\ MutatedInPlace(c)
       /\ live[c.object.id].version = c.object.version

\* C19: no step of an init call takes a key out of either table, and once init
\* has gone through the live-object set the Owner Index keys are those it
\* held when the call began together with those of the live address-owned
\* objects.
C19_BootstrapInsertOnly ==
  [][/\ (pc = "init_owner" \/ pc' = "init_owner")
          => /\ DOMAIN owner \subseteq DOMAIN owner'
             /\ DOMAIN transactions \subseteq DOMAIN transactions'
     /\ (pc = "init_owner" /\ iter = <<>>)
          => DOMAIN owner = initKeys \cup LiveAddressOwned]_vars

\* C19 witness: init has run on tables whose Owner Index held a key of an
\* object that is no longer owned by that address, and has gone through the
\* live-object set.
C19_Witness ==
  /\ pc = "init_owner"
  /\ iter = <<>>
  /\ initKeys # {}
  /\ ~(initKeys \subseteq LiveAddressOwned)
  /\ DOMAIN transactions # {}
  /\ LiveAddressOwned # {}

====
